---- MODULE Spec2Model ----
(***************************************************************************)
(* Verification model of two programs of the repository:                   *)
(*   - CI/batch/submit-job.py: the AWS Batch job submitter (main,          *)
(*     printLogs);                                                         *)
(*   - multimodal/.../models/categorical_mlp.py: CategoricalMLP            *)
(*     (__init__, forward).                                                *)
(***************************************************************************)
EXTENDS Integers, Sequences, FiniteSets, TLC

VARIABLES
    \* ---- CategoricalMLP ----
    enc_pc,             \* "new" (before __init__), "built", "called"
    num_categories,     \* the values of the num_categories dict, in dict order
    out_features,       \* self.out_features
    num_classes,        \* the num_classes argument
    column_embeddings,  \* self.column_embeddings: seq of nn.Embedding shapes
    column_mlps,        \* self.column_mlps: seq of MLP shapes
    aggregator_mlp,     \* self.aggregator_mlp: MLP shape
    head,               \* self.head: nn.Linear shape or nn.Identity
    batch_len,          \* len(batch[self.categorical_key]) of the last forward
    output,             \* outcome of the last forward
    \* ---- submit-job.py: command line ----
    name,               \* args.name, a sequence of characters
    job_type,           \* args.job_type
    timeout,            \* args.timeout: <<>> for None, <<t>> for the integer t
    wait,               \* args.wait
    \* ---- submit-job.py: main ----
    pc,                 \* "start", "loop", "logs", "exited" ("idle": not run)
    request,            \* kwargs of batch.submit_job, <<>> before the call
    spinner,
    running,
    status_set,
    startTime,          \* the log watermark
    logStreamName,      \* "None" until a RUNNING poll assigns it
    status,             \* status of the last describe_jobs response
    exitCode,           \* <<code>> once the process has exited, <<>> before
    \* ---- submit-job.py: printLogs ----
    caller,             \* branch of main that called printLogs
    kwToken,            \* kwargs.get('nextToken'), "None" when absent
    lastTimestamp,
    \* ---- the batch and logs services ----
    jobLogStream,       \* container.logStreamName of the job, "" while none
    \* ---- observations of the run ----
    polls,              \* number of describe_jobs calls
    seen,               \* statuses observed by the polls so far
    repeat,             \* the last poll observed a status seen before
    bannerCount,        \* number of 'is RUNNING' banners printed
    statusPrints,       \* status -> number of status updates printed
    summary,            \* status of the terminal summary line, "" if none
    flushed,            \* the terminal poll called printLogs
    requests,           \* get_log_events requests of the last printLogs call
    sentToken,          \* token sent by the last request
    respToken,          \* nextForwardToken of the last response
    page,               \* events of the last response
    printedPage,        \* events printed for the last response
    lastEvent           \* <<ts>> of the last event printed by the call

encVars == <<enc_pc, num_categories, out_features, num_classes,
             column_embeddings, column_mlps, aggregator_mlp, head,
             batch_len, output>>

argVars == <<name, job_type, timeout, wait>>
mainVars == <<pc, request, spinner, running, status_set, startTime,
              logStreamName, status, exitCode>>
logVars == <<caller, kwToken, lastTimestamp>>
obsVars == <<polls, seen, repeat, bannerCount, statusPrints, summary, flushed,
             requests, sentToken, respToken, page, printedPage, lastEvent>>
subVars == <<argVars, mainVars, logVars, jobLogStream, obsVars>>

vars == <<encVars, subVars>>

\* ------------------------------------------------------------------------
\* Bounds of the model
\* ------------------------------------------------------------------------
\* cardinalities 1..MaxCard are enumerated for the width
MaxCard == 1700
\* number of categorical columns of an encoder
MaxCols == 3
\* describe_jobs calls that observe a non-terminal status
MaxPolls == 3
\* log event timestamps are 0..MaxTime
MaxTime == 1
\* events in one get_log_events response
MaxEvents == 2
\* new forward tokens handed out during one printLogs call
MaxPages == 2
\* free characters before and after the filler of a name
MaxAffix == 1

Min(a, b) == IF a < b THEN a ELSE b
Max(a, b) == IF a > b THEN a ELSE b

\* the sequences over S of length at most n
RECURSIVE SeqsUpTo(_, _)
SeqsUpTo(S, n) ==
    IF n = 0 THEN {<<>>}
    ELSE LET prev == SeqsUpTo(S, n - 1)
         IN  prev \cup {Append(s, x) : s \in {t \in prev : Len(t) = n - 1}, x \in S}

\* ------------------------------------------------------------------------
\* Exact arithmetic for 1.6 * c ** 0.56.  Natural numbers too large for the
\* machine integers are sequences of base-1000 digits, least significant
\* first, without leading zeros.
\* ------------------------------------------------------------------------
RECURSIVE MulSmall(_, _, _)
MulSmall(n, m, carry) ==
    IF n = <<>>
    THEN IF carry = 0 THEN <<>>
         ELSE <<carry % 1000>> \o MulSmall(<<>>, m, carry \div 1000)
    ELSE LET v == Head(n) * m + carry
         IN  <<v % 1000>> \o MulSmall(Tail(n), m, v \div 1000)

RECURSIVE BigPow(_, _)
BigPow(b, e) == IF e = 0 THEN <<1>> ELSE MulSmall(BigPow(b, e - 1), b, 0)

BigLeq(a, b) ==
    IF Len(a) # Len(b) THEN Len(a) < Len(b)
    ELSE LET diff == {i \in 1..Len(a) : a[i] # b[i]}
         IN  \/ diff = {}
             \/ LET k == CHOOSE i \in diff : \A j \in diff : j <= i
                IN  a[k] < b[k]

\* Constants of CategoricalMLP.__init__
max_embedding_dim == 100
min_embedding_dim == 2
size_factor == 1
\* embed_exponent = 0.56 = 14/25
embed_exponent_num == 14
embed_exponent_den == 25
\* the coefficient 1.6 = 8/5
coef_num == 8
coef_den == 5

\* (coef_den * h) ** embed_exponent_den for the half-units h = 1..2*max+1
HalfPow == [h \in 1..(2 * max_embedding_dim + 1) |->
               BigPow(coef_den * h, embed_exponent_den)]

\* 1.6 * c ** 0.56 >= h / 2, for c >= 1 and h >= 1:
\*   h/2 <= (8/5) c^(14/25)  <=>  (5h)^25 <= 16^25 * c^14
RECURSIVE MulPow(_, _, _)
MulPow(n, b, e) == IF e = 0 THEN n ELSE MulPow(MulSmall(n, b, 0), b, e - 1)

RawPow(c) == MulPow(BigPow(2 * coef_num, embed_exponent_den), c, embed_exponent_num)

GeHalf(raw, h) == BigLeq(HalfPow[h], raw)

\* int(x) of the clamped value x = max(2, min(100, 1.6 * c ** 0.56)):
\* truncation toward zero, which is the floor as x >= 2
IntOfClamped(c) ==
    LET raw == RawPow(c)
        fl  == CHOOSE w \in 1..max_embedding_dim :
                   /\ GeHalf(raw, 2 * w)
                   /\ (w = max_embedding_dim \/ ~GeHalf(raw, 2 * (w + 1)))
    IN  Max(min_embedding_dim, Min(max_embedding_dim, fl))

\* round(x) of the same clamped value (nearest integer; 1.6 * c ** 0.56 is
\* never a half-integer for c >= 1)
RoundOfClamped(c) ==
    LET raw == RawPow(c)
        rd  == CHOOSE w \in 1..(max_embedding_dim + 1) :
                   /\ GeHalf(raw, 2 * w - 1)
                   /\ (w = max_embedding_dim + 1 \/ ~GeHalf(raw, 2 * w + 1))
    IN  Max(min_embedding_dim, Min(max_embedding_dim, rd))

\* the scaled value is strictly above the cap: 1.6 * c ** 0.56 > 100
AboveCap(c) == ~BigLeq(RawPow(c), HalfPow[2 * max_embedding_dim])

\* embedding_dim_per_col = int(size_factor * max(2, min(max_embedding_dim,
\*                             1.6 * num_categories_per_col**embed_exponent)))
EmbeddingDimRounded(c) == size_factor * RoundOfClamped(c)
EmbeddingDim(c) == size_factor * IntOfClamped(c)

\* ------------------------------------------------------------------------
\* CategoricalMLP
\* ------------------------------------------------------------------------
NoShape == [kind |-> "none", in_features |-> 0, out_features |-> 0]
NoTensor == [op |-> "none", parts |-> <<>>, width |-> 0]
NoOutput == [status |-> "none", lookups |-> 0,
             logits |-> NoTensor, features |-> NoTensor]

\* nn.Embedding(num_embeddings, embedding_dim)
Embedding(num_embeddings, embedding_dim) ==
    [num_embeddings |-> num_embeddings, embedding_dim |-> embedding_dim]

\* MLP(in_features, hidden_features, out_features, ...) of models/mlp.py:
\* a stack of num_layers units followed by a linear layer; it maps a tensor
\* of width in_features to a tensor of width out_features
MLP(in_features, hidden_features, out_feats) ==
    [kind |-> "MLP", in_features |-> in_features, out_features |-> out_feats]

MLPAccepts(mlp, width) == width = mlp.in_features
MLPOutWidth(mlp) == mlp.out_features

\* the loop of __init__ over num_categories.values()
BuildEmbeddings(cards) ==
    [i \in 1..Len(cards) |-> Embedding(cards[i], EmbeddingDim(cards[i]))]

BuildColumnMlps(cards, out_feats) ==
    [i \in 1..Len(cards) |-> MLP(EmbeddingDim(cards[i]), out_feats, out_feats)]

\* a variant whose input width ignores the number of columns
BuildAggregatorOneColumn(cards, out_feats) ==
    MLP(out_feats, out_feats, out_feats)

\* self.aggregator_mlp = MLP(in_features=out_features * len(num_categories), ...)
BuildAggregator(cards, out_feats) ==
    MLP(out_feats * Len(cards), out_feats * Len(cards), out_feats)

\* self.head = nn.Linear(out_features, num_classes) if num_classes > 0
\*             else nn.Identity()
BuildHead(out_feats, n_classes) ==
    IF n_classes > 0
    THEN [kind |-> "Linear", in_features |-> out_feats, out_features |-> n_classes]
    ELSE [kind |-> "Identity", in_features |-> 0, out_features |-> 0]

\* CategoricalMLP.__init__
Construct ==
    /\ enc_pc = "new"
    /\ enc_pc' = "built"
    /\ column_embeddings' = BuildEmbeddings(num_categories)
    /\ column_mlps' = BuildColumnMlps(num_categories, out_features)
    /\ aggregator_mlp' = BuildAggregator(num_categories, out_features)
    /\ head' = BuildHead(out_features, num_classes)
    /\ UNCHANGED <<num_categories, out_features, num_classes, batch_len, output>>
    /\ UNCHANGED subVars

\* a variant that only rejects too few tensors
AssertLenAtLeast(n, embeddings) == n >= Len(embeddings)

\* assert len(batch[self.categorical_key]) == len(self.column_embeddings)
AssertLen(n, embeddings) == n = Len(embeddings)

\* zip(batch[key], self.column_embeddings, self.column_mlps) stops at the
\* shortest of its arguments
ZipLen(n, embeddings, mlps) == Min(n, Min(Len(embeddings), Len(mlps)))

\* one column of the loop: mlp(embed(categorical_id)); the result records
\* which input tensor, which embedding and which MLP produced it
ColumnFeature(i, embeddings, mlps) ==
    [input |-> i, embed |-> i, mlp |-> i,
     ok    |-> MLPAccepts(mlps[i], embeddings[i].embedding_dim),
     width |-> MLPOutWidth(mlps[i])]

RECURSIVE SumWidth(_)
SumWidth(fs) == IF fs = <<>> THEN 0 ELSE Head(fs).width + SumWidth(Tail(fs))

\* self.head(features)
ApplyHead(h, features) ==
    IF h.kind = "Identity" THEN features
    ELSE [op |-> "head", parts |-> features.parts, width |-> h.out_features]

HeadAccepts(h, features) ==
    h.kind = "Identity" \/ features.width = h.in_features

\* CategoricalMLP.forward on a batch that supplies n per-column tensors
ForwardResult(n, embeddings, mlps, aggregator, h) ==
    IF ~AssertLen(n, embeddings)
    THEN [NoOutput EXCEPT !.status = "AssertionError"]
    ELSE
      LET k    == ZipLen(n, embeddings, mlps)
          fs   == [i \in 1..k |-> ColumnFeature(i, embeddings, mlps)]
          \* torch.cat(features, dim=1)
          cat  == [op |-> "cat", parts |-> fs, width |-> SumWidth(fs)]
          feat == [op |-> "aggregator_mlp", parts |-> fs,
                   width |-> MLPOutWidth(aggregator)]
      IN  IF \/ k = 0
             \/ \E i \in 1..k : ~fs[i].ok
             \/ ~MLPAccepts(aggregator, cat.width)
             \/ ~HeadAccepts(h, feat)
          THEN [NoOutput EXCEPT !.status = "RuntimeError", !.lookups = k]
          ELSE [status |-> "ok", lookups |-> k,
                logits |-> ApplyHead(h, feat), features |-> feat]

Forward(n) ==
    /\ enc_pc \in {"built", "called"}
    /\ enc_pc' = "called"
    /\ batch_len' = n
    /\ output' = ForwardResult(n, column_embeddings, column_mlps,
                               aggregator_mlp, head)
    /\ UNCHANGED <<num_categories, out_features, num_classes,
                   column_embeddings, column_mlps, aggregator_mlp, head>>
    /\ UNCHANGED subVars

\* ------------------------------------------------------------------------
\* submit-job.py
\* ------------------------------------------------------------------------
job_type_info ==
    [t \in {"CI-CPU", "CI-GPU", "CI-WASM", "CI-MULTI-GPU", "CI-CPU-PUSH",
            "CI-GPU-PUSH", "CI-WASM-PUSH", "CI-MULTI-GPU-PUSH"} |->
        CASE t = "CI-CPU"            -> [job_definition |-> "autogluon-ci-cpu:3", job_queue |-> "CI-CPU"]
          [] t = "CI-GPU"            -> [job_definition |-> "autogluon-ci-gpu:3", job_queue |-> "CI-GPU"]
          [] t = "CI-WASM"           -> [job_definition |-> "autogluon-ci-wasm:1", job_queue |-> "CI-CPU"]
          [] t = "CI-MULTI-GPU"      -> [job_definition |-> "autogluon-ci-multi-gpu:6", job_queue |-> "CI-MULTI-GPU"]
          [] t = "CI-CPU-PUSH"       -> [job_definition |-> "autogluon-ci-cpu-push:3", job_queue |-> "CI-CPU"]
          [] t = "CI-GPU-PUSH"       -> [job_definition |-> "autogluon-ci-gpu-push:4", job_queue |-> "CI-GPU"]
          [] t = "CI-WASM-PUSH"      -> [job_definition |-> "autogluon-ci-wasm-push:2", job_queue |-> "CI-CPU"]
          [] t = "CI-MULTI-GPU-PUSH" -> [job_definition |-> "autogluon-ci-multi-gpu-push:2", job_queue |-> "CI-MULTI-GPU"]]

\* the characters kept by re.sub('[^A-Za-z0-9_\-]', '', ...)
AllowedChars ==
    {"A","B","C","D","E","F","G","H","I","J","K","L","M",
     "N","O","P","Q","R","S","T","U","V","W","X","Y","Z",
     "a","b","c","d","e","f","g","h","i","j","k","l","m",
     "n","o","p","q","r","s","t","u","v","w","x","y","z",
     "0","1","2","3","4","5","6","7","8","9","_","-"}

\* the slice [:128]
JobNameLimit == 128

IsAllowed(ch) == ch \in AllowedChars

\* re.sub('[^A-Za-z0-9_\-]', '', s): every character outside the class is
\* replaced by the empty string
ReSub(s) == SelectSeq(s, IsAllowed)

\* s[:n]
Slice(s, n) == SubSeq(s, 1, Min(n, Len(s)))

\* a variant that truncates before it filters
SanitizeTruncateFirst(s) == ReSub(Slice(s, JobNameLimit))

\* jobName = re.sub('[^A-Za-z0-9_\-]', '', args.name)[:128]
SanitizeJobName(s) == Slice(ReSub(s), JobNameLimit)

\* kwargs of batch.submit_job; the timeout key is present only when
\* args.timeout is not None
SubmitKwargs(nm, jt, to) ==
    [jobName       |-> SanitizeJobName(nm),
     jobQueue      |-> job_type_info[jt].job_queue,
     jobDefinition |-> job_type_info[jt].job_definition,
     timeout       |-> IF to # <<>> THEN <<[attemptDurationSeconds |-> to[1]]>>
                       ELSE <<>>]

\* the process has not exited: no exit code yet
NoExit == <<>>
\* sys.exit(arg) with a bool: True exits with code 1, False with code 0
SysExit(arg) == IF arg THEN <<1>> ELSE <<0>>
\* a variant that tests the wrong status
ExitArgSucceeded(st) == st = "SUCCEEDED"

\* sys.exit(status == 'FAILED')
ExitArg(st) == st = "FAILED"

Terminal == {"SUCCEEDED", "FAILED"}

\* truthiness of a str-or-None value
Truthy(x) == x # "None" /\ x # ""

\* main, from its first line to the first evaluation of `while wait`
Submit ==
    /\ pc = "start"
    /\ request' = <<SubmitKwargs(name, job_type, timeout)>>
    /\ spinner' = 0
    /\ running' = FALSE
    /\ status_set' = {}
    /\ startTime' = 0
    /\ logStreamName' = "None"
    /\ pc' = "loop"
    /\ UNCHANGED <<status, exitCode>>
    /\ UNCHANGED <<argVars, logVars, jobLogStream, obsVars, encVars>>

\* `while wait` with wait false: main returns and the interpreter exits
ReturnNoWait ==
    /\ pc = "loop"
    /\ ~wait
    /\ pc' = "exited"
    /\ exitCode' = <<0>>
    /\ UNCHANGED <<request, spinner, running, status_set, startTime,
                   logStreamName, status>>
    /\ UNCHANGED <<argVars, logVars, jobLogStream, obsVars, encVars>>

\* a variant that forgets the requested start time
InitialLastTimestampZero(start) == 0

\* lastTimestamp = startTime - 1
InitialLastTimestamp(start) == start - 1

\* the entry of printLogs(logGroupName, logStreamName, startTime): kwargs
\* without nextToken, lastTimestamp = startTime - 1
EnterPrintLogs(from) ==
    /\ pc' = "logs"
    /\ caller' = from
    /\ kwToken' = "None"
    /\ lastTimestamp' = InitialLastTimestamp(startTime)
    /\ requests' = 0
    /\ sentToken' = "None"
    /\ respToken' = "None"
    /\ page' = <<>>
    /\ printedPage' = <<>>
    /\ lastEvent' = <<>>

\* the end of the SUCCEEDED / FAILED branch: the separator, the summary
\* line and sys.exit(status == 'FAILED')
PrintSummaryAndExit(st) ==
    /\ summary' = st
    /\ exitCode' = SysExit(ExitArg(st))
    /\ pc' = "exited"

\* the log stream of the job comes into existence at some point and stays
StreamAfter(cur) == IF cur = "" THEN {"", "job-stream"} ELSE {cur}

\* one describe_jobs call and what it observes
Observe(st, stream) ==
    /\ pc = "loop"
    /\ wait
    /\ polls < MaxPolls \/ st \in Terminal
    /\ stream \in StreamAfter(jobLogStream)
    /\ jobLogStream' = stream
    /\ status' = st
    /\ polls' = polls + 1
    /\ seen' = seen \cup {st}
    /\ repeat' = (st \in seen)

\* a poll that observes SUCCEEDED or FAILED
PollTerminal(st, stream) ==
    /\ st \in Terminal
    /\ Observe(st, stream)
    /\ IF Truthy(logStreamName)
       THEN /\ EnterPrintLogs("terminal")
            /\ flushed' = TRUE
            /\ UNCHANGED <<summary, exitCode>>
       ELSE /\ PrintSummaryAndExit(st)
            /\ UNCHANGED <<logVars, flushed, requests, sentToken, respToken,
                           page, printedPage, lastEvent>>
    /\ UNCHANGED <<request, spinner, running, status_set, startTime,
                   logStreamName>>
    /\ UNCHANGED <<argVars, bannerCount, statusPrints, encVars>>

\* a poll that observes RUNNING
PollRunning(stream) ==
    /\ Observe("RUNNING", stream)
    /\ logStreamName' = stream
    /\ running' = TRUE
    /\ bannerCount' = IF ~running THEN bannerCount + 1 ELSE bannerCount
    /\ IF Truthy(stream)
       THEN EnterPrintLogs("running")
       ELSE /\ pc' = "loop"
            /\ UNCHANGED <<logVars, requests, sentToken, respToken,
                           page, printedPage, lastEvent>>
    /\ UNCHANGED <<request, spinner, status_set, startTime, exitCode>>
    /\ UNCHANGED <<argVars, statusPrints, summary, flushed, encVars>>

\* a variant without the dedup
IsNewStatusAlways(st, sset) == TRUE

\* `status not in status_set`
IsNewStatus(st, sset) == st \notin sset

\* a poll that observes any other status
PollOther(st, stream) ==
    /\ st \notin Terminal
    /\ st # "RUNNING"
    /\ Observe(st, stream)
    /\ IF IsNewStatus(st, status_set)
       THEN /\ status_set' = status_set \cup {st}
            /\ statusPrints' = [statusPrints EXCEPT ![st] = @ + 1]
            /\ spinner' = spinner + 1
       ELSE UNCHANGED <<status_set, statusPrints, spinner>>
    /\ pc' = "loop"
    /\ UNCHANGED <<request, running, startTime, logStreamName, exitCode>>
    /\ UNCHANGED <<argVars, logVars, bannerCount, summary, flushed, requests,
                   sentToken, respToken, page, printedPage, lastEvent, encVars>>

\* the for loop of printLogs over logEvents['events']
RECURSIVE PrintEvents(_, _, _)
PrintEvents(events, last, out) ==
    IF events = <<>> THEN [lastTimestamp |-> last, out |-> out]
    ELSE PrintEvents(Tail(events), Head(events), Append(out, Head(events)))

\* a variant that does not compare with the token sent
MorePagesAnyToken(nextToken, sent) == Truthy(nextToken)

\* `if nextToken and kwargs.get('nextToken') != nextToken`
MorePages(nextToken, sent) == Truthy(nextToken) /\ sent # nextToken

\* the service answers with a token that is neither empty nor the one sent
IsNewToken(nextToken, sent) == nextToken # "" /\ nextToken # sent

\* printLogs(...) + 1, assigned to startTime by both callers
NextStartTime(ret) == ret + 1

\* the pages the logs service may answer a request with: events at or after
\* the requested start time
PagesFrom == [t \in 0..(MaxTime + 1) |-> SeqsUpTo(t..MaxTime, MaxEvents)]
Pages(from) == PagesFrom[from]

\* one iteration of the while loop of printLogs: a get_log_events request
\* and its response (events, nextForwardToken); when the loop ends, the
\* call returns into the branch of main that made it
GetLogEvents(events, nextToken) ==
    /\ pc = "logs"
    /\ events \in Pages(startTime)
    \* the service hands out a new token at most MaxPages times per call
    /\ IsNewToken(nextToken, kwToken) => requests < MaxPages
    /\ LET r == PrintEvents(events, lastTimestamp, <<>>)
       IN  /\ lastTimestamp' = r.lastTimestamp
           /\ printedPage' = r.out
           /\ lastEvent' = IF events = <<>> THEN lastEvent
                           ELSE <<events[Len(events)]>>
           /\ requests' = requests + 1
           /\ sentToken' = kwToken
           /\ respToken' = nextToken
           /\ page' = events
           /\ IF MorePages(nextToken, kwToken)
              THEN /\ kwToken' = nextToken
                   /\ pc' = "logs"
                   /\ UNCHANGED <<startTime, summary, exitCode, caller>>
              ELSE /\ kwToken' = kwToken
                   /\ startTime' = NextStartTime(r.lastTimestamp)
                   /\ caller' = "none"
                   /\ IF caller = "terminal"
                      THEN PrintSummaryAndExit(status)
                      ELSE /\ pc' = "loop"
                           /\ UNCHANGED <<summary, exitCode>>
    /\ UNCHANGED <<request, spinner, running, status_set, logStreamName, status>>
    /\ UNCHANGED <<argVars, jobLogStream, polls, seen, repeat, bannerCount,
                   statusPrints, flushed, encVars>>

\* ------------------------------------------------------------------------
\* Initial states and specifications
\* ------------------------------------------------------------------------
\* the encoder before it is used by a specification of the submitter
EncIdle ==
    /\ enc_pc = "idle"
    /\ num_categories = <<>>
    /\ out_features = 0
    /\ num_classes = 0
    /\ column_embeddings = <<>>
    /\ column_mlps = <<>>
    /\ aggregator_mlp = NoShape
    /\ head = NoShape
    /\ batch_len = 0
    /\ output = NoOutput

\* job statuses of the batch service other than RUNNING and the two terminal
\* ones (SUBMITTED and PENDING are handled by the same branch)
OtherStatuses == {"RUNNABLE", "STARTING"}

\* the forward tokens of the logs service ("" is an empty token)
Tokens == {"", "f/1", "f/2"}

\* the state of the submitter process before main runs
SubState(p, nm, jt, to, w) ==
    /\ name = nm
    /\ job_type = jt
    /\ timeout = to
    /\ wait = w
    /\ pc = p
    /\ request = <<>>
    /\ spinner = 0
    /\ running = FALSE
    /\ status_set = {}
    /\ startTime = 0
    /\ logStreamName = "None"
    /\ status = "None"
    /\ exitCode = NoExit
    /\ caller = "none"
    /\ kwToken = "None"
    /\ lastTimestamp = 0
    /\ jobLogStream = ""
    /\ polls = 0
    /\ seen = {}
    /\ repeat = FALSE
    /\ bannerCount = 0
    /\ statusPrints = [s \in OtherStatuses |-> 0]
    /\ summary = ""
    /\ flushed = FALSE
    /\ requests = 0
    /\ sentToken = "None"
    /\ respToken = "None"
    /\ page = <<>>
    /\ printedPage = <<>>
    /\ lastEvent = <<>>

\* the submitter while a specification of the encoder runs
SubIdle == SubState("idle", <<>>, "CI-CPU", <<>>, FALSE)

\* --name values: free characters around a filler of one repeated character
NameChars == {"a", "-", "/"}
FillLens == {0, JobNameLimit - 1, JobNameLimit}
Rep(ch, n) == [i \in 1..n |-> ch]
Names ==
    {pre \o Rep(f, n) \o suf :
        pre \in SeqsUpTo(NameChars, MaxAffix), suf \in SeqsUpTo(NameChars, MaxAffix),
        f \in NameChars, n \in FillLens}
DefaultName == <<"d", "u", "m", "m", "y">>

\* --timeout values: absent, or any integer argparse's type=int accepts
Timeouts == {<<>>, <<-5>>, <<0>>, <<1>>, <<3600>>}

\* a get_log_events request of printLogs with any response of the service
LogStep ==
    \E events \in Pages(startTime), nextToken \in Tokens :
        GetLogEvents(events, nextToken)

\* the command lines of the runs
Init ==
    /\ EncIdle
    /\ \/ \E nm \in Names : SubState("start", nm, "CI-CPU", <<>>, FALSE)
       \/ \E jt \in DOMAIN job_type_info, to \in Timeouts :
              SubState("start", DefaultName, jt, to, FALSE)
       \/ SubState("start", DefaultName, "CI-CPU", <<>>, TRUE)

Next ==
    \/ Submit
    \/ ReturnNoWait
    \/ \E st \in Terminal, stream \in {"", "job-stream"} : PollTerminal(st, stream)
    \/ \E stream \in {"", "job-stream"} : PollRunning(stream)
    \/ \E st \in OtherStatuses, stream \in {"", "job-stream"} : PollOther(st, stream)
    \/ LogStep

Spec == Init /\ [][Next]_vars

\* cardinalities of the encoder runs: floor, interior, cap
EncCards == {1, 3, 40, 2000}
EncWidths == {1, 4}
EncClasses == {0, 1, 3}

InitEnc ==
    /\ SubIdle
    /\ enc_pc = "new"
    /\ num_categories \in (SeqsUpTo(EncCards, MaxCols) \ {<<>>})
    /\ out_features \in EncWidths
    /\ num_classes \in EncClasses
    /\ column_embeddings = <<>>
    /\ column_mlps = <<>>
    /\ aggregator_mlp = NoShape
    /\ head = NoShape
    /\ batch_len = 0
    /\ output = NoOutput

NextEnc ==
    \/ Construct
    \/ \E n \in 0..(MaxCols + 1) : Forward(n)

SpecEnc == InitEnc /\ [][NextEnc]_vars

\* the width of one column over the whole range of cardinalities: an encoder
\* of two columns with cardinalities c and c + d
CardDeltas == {1, 50}

InitWidth ==
    /\ SubIdle
    /\ enc_pc = "new"
    /\ \E c \in 1..MaxCard, d \in CardDeltas : num_categories = <<c, c + d>>
    /\ out_features = 4
    /\ num_classes = 0
    /\ column_embeddings = <<>>
    /\ column_mlps = <<>>
    /\ aggregator_mlp = NoShape
    /\ head = NoShape
    /\ batch_len = 0
    /\ output = NoOutput

NextWidth == Construct

SpecWidth == InitWidth /\ [][NextWidth]_vars

\* ------------------------------------------------------------------------
\* Properties of the job submitter
\* ------------------------------------------------------------------------
Submitted == request # <<>>
Exited == pc = "exited"
InPrintLogs == pc = "logs"

\* C1: with --wait the process exits only at a poll that observed SUCCEEDED
\* or FAILED, with a nonzero exit code iff the status is FAILED; without
\* --wait it never polls and exits with code 0.
C1_ExitCode ==
    /\ (Exited /\ wait) =>
          /\ status \in Terminal
          /\ summary = status
          /\ exitCode # NoExit
          /\ (exitCode[1] # 0) <=> (status = "FAILED")
          /\ (status = "SUCCEEDED") => (exitCode[1] = 0)
    /\ ~wait => polls = 0
    /\ (Exited /\ ~wait) => exitCode = <<0>>
    /\ ~Exited => (exitCode = NoExit /\ summary = "")

C1_Witness ==
    /\ Exited /\ wait
    /\ status = "FAILED"
    /\ exitCode = <<1>>
    /\ polls > 1

\* C2: with --wait, a process that exits after a terminal status whose job
\* has a log stream has fetched and printed the remaining log lines in that
\* poll, before the summary, whatever the earlier polls observed.
C2_TerminalFlush ==
    (Exited /\ wait /\ jobLogStream # "") => flushed

\* one step of the run, as far as the watermark goes
C3_WatermarkStep ==
    /\ startTime' >= startTime
    /\ (InPrintLogs /\ ~InPrintLogs') =>
          startTime' = IF lastEvent' = <<>> THEN startTime
                       ELSE lastEvent'[1] + 1
    /\ ~(InPrintLogs /\ ~InPrintLogs') => startTime' = startTime

\* C3: the watermark startTime never decreases; it changes only when a
\* printLogs call returns, and then it stays as it was if the call printed
\* no event and becomes the timestamp of the last event printed plus one
\* otherwise.
C3_Watermark == [][C3_WatermarkStep]_vars

\* a call that printed nothing returned after an earlier call advanced the
\* watermark
C3_Witness ==
    /\ pc = "loop"
    /\ requests > 0
    /\ lastEvent = <<>>
    /\ startTime > 0

\* C4: the submitted job name has only characters of [A-Za-z0-9_-], is at
\* most 128 long, and is made of the first 128 allowed characters of the
\* input name, in their order.
KeptPositions(s) == {p \in 1..Len(s) : s[p] \in AllowedChars}

C4_JobName ==
    Submitted =>
        LET jn   == request[1].jobName
            kept == KeptPositions(name)
            rank == [p \in kept |-> Cardinality({q \in kept : q <= p})]
        IN  /\ \A i \in 1..Len(jn) : jn[i] \in AllowedChars
            /\ Len(jn) <= JobNameLimit
            /\ Len(jn) = Min(JobNameLimit, Cardinality(kept))
            /\ \A p \in kept : rank[p] <= JobNameLimit => jn[rank[p]] = name[p]

\* a name longer than the limit with a removed character among its first
\* 128 and more than 128 allowed ones
C4_Witness ==
    /\ Submitted
    /\ Len(name) > JobNameLimit
    /\ \E p \in 1..JobNameLimit : name[p] \notin AllowedChars
    /\ Cardinality(KeptPositions(name)) > JobNameLimit
    /\ Len(request[1].jobName) = JobNameLimit

\* C5: the submit request carries a timeout exactly when --timeout was
\* given, and a timeout it carries is a positive number of seconds.
C5_TimeoutPositive ==
    Submitted =>
        /\ (request[1].timeout # <<>>) <=> (timeout # <<>>)
        /\ request[1].timeout # <<>> =>
               request[1].timeout[1].attemptDurationSeconds > 0

\* C6: the 'is RUNNING' banner and the status update of every other
\* non-terminal status have been printed exactly once if a poll observed
\* the status and never otherwise; the spinner counts the status updates.
RECURSIVE SumPrints(_, _)
SumPrints(f, S) ==
    IF S = {} THEN 0
    ELSE LET x == CHOOSE y \in S : TRUE IN f[x] + SumPrints(f, S \ {x})

C6_PrintedOnce ==
    pc # "idle" =>
        /\ bannerCount = IF "RUNNING" \in seen THEN 1 ELSE 0
        /\ \A s \in OtherStatuses :
               statusPrints[s] = IF s \in seen THEN 1 ELSE 0
        /\ spinner = SumPrints(statusPrints, OtherStatuses)

\* a status is observed again after RUNNING was observed
C6_Witness ==
    /\ repeat
    /\ status \in OtherStatuses
    /\ running
    /\ statusPrints[status] = 1
    /\ bannerCount = 1

\* the state of a printLogs call: the first request carries no token; the
\* loop goes on exactly while the response token is non-empty and differs
\* from the token sent, and then the next request carries that token; the
\* page received is printed in order; the call makes at most one request
\* more than the service hands out new tokens, and it never blocks
C10_Requests ==
    /\ (InPrintLogs /\ requests = 0) => kwToken = "None"
    /\ requests = 1 => sentToken = "None"
    /\ requests > 0 =>
          /\ printedPage = page
          /\ InPrintLogs =>
                (respToken # "" /\ respToken # sentToken /\ kwToken = respToken)
          /\ ~InPrintLogs => (respToken = "" \/ respToken = sentToken)
    /\ requests <= MaxPages + 1
    /\ InPrintLogs => ENABLED LogStep

\* a request after the first carries the token of the previous response
C10_Chain ==
    (InPrintLogs /\ requests > 0 /\ requests' = requests + 1) =>
        sentToken' = respToken

\* C10: the first request of a printLogs call carries no token, each later
\* one the forward token of the previous response; the loop stops at the
\* first response whose token is empty or equal to the token sent, so a
\* call ends after at most one request more than the service hands out new
\* tokens, having printed every event of every page in the order received.
C10_Pagination ==
    /\ []C10_Requests
    /\ [][C10_Chain]_vars

\* a call that ended on an unchanged token after several pages
C10_Witness ==
    /\ ~InPrintLogs
    /\ requests = MaxPages + 1
    /\ respToken # ""
    /\ respToken = sentToken
    /\ Len(page) > 1

\* ------------------------------------------------------------------------
\* Properties of CategoricalMLP
\* ------------------------------------------------------------------------
Built == enc_pc \in {"built", "called"}
Called == enc_pc = "called"
Columns == 1..Len(num_categories)

\* C7 as stated: the width of every column is the rounded clamped value.
C7_RoundedWidth ==
    Built => \A i \in Columns :
        column_embeddings[i].embedding_dim = EmbeddingDimRounded(num_categories[i])

\* C7 as amended: the width w of a column of cardinality c is the clamped
\* value 1.6 * c^0.56 truncated to an integer: 2 <= w <= 100, w = 2 for
\* c = 1, w = 100 when 1.6 * c^0.56 > 100, w <= 1.6 * c^0.56 < w + 1 when the
\* value lies between the floor and the cap, and w is non-decreasing in c.
C7_TruncatedWidth ==
    Built =>
        /\ \A i \in Columns :
              LET c   == num_categories[i]
                  w   == column_embeddings[i].embedding_dim
                  raw == RawPow(c)
              IN  /\ column_embeddings[i].num_embeddings = c
                  /\ min_embedding_dim <= w /\ w <= max_embedding_dim
                  /\ c = 1 => w = min_embedding_dim
                  /\ AboveCap(c) => w = max_embedding_dim
                  /\ GeHalf(raw, 2 * min_embedding_dim) /\ ~AboveCap(c) =>
                        /\ GeHalf(raw, 2 * w)
                        /\ w < max_embedding_dim => ~GeHalf(raw, 2 * (w + 1))
                  /\ ~GeHalf(raw, 2 * min_embedding_dim) => w = min_embedding_dim
        /\ \A i, j \in Columns :
              num_categories[i] <= num_categories[j] =>
                  column_embeddings[i].embedding_dim
                      <= column_embeddings[j].embedding_dim

\* the last cardinality below the cap next to the first one above it
C7_Witness ==
    /\ Built
    /\ Len(num_categories) = 2
    /\ ~AboveCap(num_categories[1]) /\ AboveCap(num_categories[2])
    /\ column_embeddings[1].embedding_dim = max_embedding_dim - 1
    /\ column_embeddings[2].embedding_dim = max_embedding_dim
    /\ EmbeddingDimRounded(num_categories[1]) = max_embedding_dim

\* C8: forward raises AssertionError before any embedding lookup and returns
\* nothing when the number of tensors differs from the number of columns;
\* otherwise the i-th tensor goes through the i-th embedding and the i-th
\* MLP, and the column outputs are concatenated in column order.
C8_Forward ==
    Called =>
        IF batch_len # Len(num_categories)
        THEN /\ output.status = "AssertionError"
             /\ output.lookups = 0
             /\ output.features = NoTensor
             /\ output.logits = NoTensor
        ELSE /\ output.status = "ok"
             /\ output.lookups = Len(num_categories)
             /\ Len(output.features.parts) = Len(num_categories)
             /\ \A i \in Columns :
                   LET f == output.features.parts[i]
                   IN  f.input = i /\ f.embed = i /\ f.mlp = i

C8_Witness ==
    /\ Called
    /\ batch_len > Len(num_categories)
    /\ Len(num_categories) > 1
    /\ output.status = "AssertionError"

\* C9: a forward call with one tensor per column succeeds; its features have
\* the configured width; its logits are the features when the class count is
\* 0 and have num_classes columns otherwise; every column MLP outputs the
\* configured width and the aggregator takes that width times the number of
\* columns.
C9_Shapes ==
    /\ Built =>
          /\ \A i \in Columns : column_mlps[i].out_features = out_features
          /\ aggregator_mlp.in_features = out_features * Len(num_categories)
          /\ aggregator_mlp.out_features = out_features
    /\ (Called /\ batch_len = Len(num_categories)) =>
          /\ output.status = "ok"
          /\ output.features.width = out_features
          /\ num_classes = 0 => output.logits = output.features
          /\ num_classes > 0 => output.logits.width = num_classes

C9_Witness ==
    /\ Called
    /\ output.status = "ok"
    /\ Len(num_categories) > 1
    /\ num_classes > 0 /\ num_classes # out_features
    /\ output.logits.width = num_classes
    /\ output.features.width = out_features

====
